---- MODULE Spec2Model ----
(***************************************************************************)
(* Model of directory-cache (src/index.js): an in-memory mirror of the     *)
(* files of one directory, kept current from the add / change / delete     *)
(* batches of a DirectoryWatcher.                                          *)
(*                                                                         *)
(* The disk, the watchers and the callers of the public methods are the    *)
(* environment.  Every asynchronous suspension point of the code (watcher  *)
(* creation, fs.stat, fs.readFile) is a separate step, so operations in    *)
(* flight interleave with notifications, disk changes and method calls.    *)
(* A request to the file system is answered from what the directory held   *)
(* when the request was served, which is before its callback runs: every   *)
(* request in flight carries the answer it has got so far.                 *)
(*                                                                         *)
(* File names are sequences of one-character strings, so that              *)
(* isJsonFile's slice(-5).toLowerCase() is computed rather than assumed.   *)
(* The cache is a plain object, so `in` and `[]` on it also see the        *)
(* properties it inherits from Object.prototype: HasKey and getFile model  *)
(* that, and the store operations are run on the name "toString" too.      *)
(***************************************************************************)
EXTENDS Integers, Sequences, FiniteSets, Bags, TLC

VARIABLES
    disk,        \* the watched directory: name -> absent / directory / file content
    hasCache,    \* this.cache has been assigned (init() ran at least once)
    cache,       \* this.cache: own keys -> cached value
    count,       \* this.count
    parseJson,   \* this.parseJson
    attached,    \* this._watcher: the watcher attachWatcher() saw last, or NoWatcher
    watcher,     \* this.watcher: the field stop() reads; nothing in index.js assigns it
    listeners,   \* per watcher, how many add/change/delete listener trios this cache holds
    inflight,    \* bag of probe/read pipelines dispatched and not yet completed
    initPhase,   \* position of init(): "idle", "creating", "mapping", then "done"
                 \* (called back without error) or "failed" (called back with one)
    initFiles,   \* the file list handed to mapFiles by the current init()
    initRead,    \* per name, what the current init()'s pipeline handed to _addFile
    notified,    \* a watcher notification was processed while init() was running
    stopped,     \* stop() has been called
    uncaught,    \* the exception that escaped to the event loop, or NoError
    calls,       \* steps of the environment so far
    last,        \* the last step: what was called or completed, and on which names
    events,      \* notifications and callbacks raised by the last step, in order
    filterArg,   \* the filter the cache was constructed with: none, a regexp, a function
    lastCount,   \* this.lastCount
    keys,        \* this.keys (src/lib/DirectoryCache.js): the array getFiles() returns
    built,       \* how many key arrays getFilenames() / getFiles() have built so far
    legacyAsync, \* the async release in use is 0.2.x: it calls back without arguments
                 \* when it is given nothing to do (later releases pass null), and
                 \* its waterfall starts every stage in a later turn of the event loop
    listing      \* the fs.readdir of init() (src/lib/DirectoryCache.js): not requested,
                 \* requested, or the names it was served

vars == <<disk, hasCache, cache, count, parseJson, attached, watcher, listeners,
          inflight, initPhase, initFiles, initRead, notified, stopped, uncaught,
          calls, last, events, filterArg, lastCount, keys, built, legacyAsync,
          listing>>

---------------------------------------------------------------------------
(* Bounds of the model *)

\* pipelines in flight at once
MaxInFlight == 2
\* steps of the environment in one run: changes of the directory, method
\* calls of the application, watcher notifications
MaxCalls == 3

---------------------------------------------------------------------------
(* File names and file contents *)

F_1json == <<"1", ".", "j", "s", "o", "n">>
F_x == <<"x">>
Names == {F_1json, F_x}
NoName == << >>

C_a1 == "{\"a\":1}"
C_a2 == "{\"a\":2}"
C_xy == "xy"
Contents == {C_a1, C_a2, C_xy}
\* a file of length 0
C_empty == ""

\* JavaScript values held by the cache or carried by notifications
Undefined == [t |-> "undefined", v |-> "undefined"]
Buffer(raw) == [t |-> "Buffer", v |-> raw]
Object(fields) == [t |-> "Object", v |-> fields]
SyntaxError == [t |-> "SyntaxError", v |-> "JSON.parse"]

\* disk entries
Absent == [kind |-> "absent", content |-> ""]
Dir == [kind |-> "dir", content |-> ""]
File(raw) == [kind |-> "file", content |-> raw]
DiskEntries == {Absent, Dir, File(C_empty)} \cup {File(raw) : raw \in Contents}

\* the fs.readdir of init(): not requested, requested and not yet served by
\* the file system, or served with these names
NoListing == [kind |-> "none", names |-> {}]
LiveListing == [kind |-> "live", names |-> {}]
Listed(names) == [kind |-> "listed", names |-> names]
\* what a name can be when the cache is constructed; the other contents are
\* written later
InitialEntries == {Absent, Dir, File(C_a1)}

NoWatcher == "none"
MockWatcher == "mock"
OwnWatcher == "own"
Watchers == {MockWatcher, OwnWatcher}

NoError == "none"

---------------------------------------------------------------------------
(* Pure helpers of src/index.js *)

JsonSuffixLen == 5

toLowerCase(ch) ==
    CASE ch = "J" -> "j"
      [] ch = "S" -> "s"
      [] ch = "O" -> "o"
      [] ch = "N" -> "n"
      [] OTHER -> ch

\* String.prototype.slice(-n)
sliceLast(s, n) ==
    IF Len(s) <= n THEN s ELSE SubSeq(s, Len(s) - n + 1, Len(s))

\* an isJsonFile that compares the suffix without lower-casing it
isJsonFile_caseSensitive(filename) ==
    sliceLast(filename, JsonSuffixLen) = <<".", "j", "s", "o", "n">>

isJsonFile(filename) ==
    LET tail == sliceLast(filename, JsonSuffixLen)
    IN [i \in 1..Len(tail) |-> toLowerCase(tail[i])] = <<".", "j", "s", "o", "n">>

\* JSON.parse on the values the pipeline can hand over: a Buffer is converted
\* to its text, undefined to the text "undefined", which is not JSON.
JSONparse(data) ==
    IF data.t # "Buffer" THEN SyntaxError
    ELSE CASE data.v = C_a1 -> Object([a |-> 1])
           [] data.v = C_a2 -> Object([a |-> 2])
           [] OTHER -> SyntaxError

\* a property every plain object inherits from Object.prototype, and the
\* function it holds
F_toString == <<"t", "o", "S", "t", "r", "i", "n", "g">>
ProtoNames == {F_toString}
Function(name) == [t |-> "function", v |-> name]

\* `file in this.cache` on a plain object: an own key or an inherited property
HasKey(c, file) == file \in DOMAIN c \/ file \in ProtoNames

\* this.cache[file]: the own value, else the inherited one, else undefined
getFile(c, file) ==
    IF file \in DOMAIN c THEN c[file]
    ELSE IF file \in ProtoNames THEN Function(file)
    ELSE Undefined

getFilenames(c) == DOMAIN c

Put(c, file, data) == [f \in DOMAIN c \cup {file} |-> IF f = file THEN data ELSE c[f]]

Remove(c, file) == [f \in DOMAIN c \ {file} |-> c[f]]

\* /.*json/.test(file): the name holds the text "json" somewhere
RegExpJson(file) ==
    \E i \in 1..Len(file) : i + 3 <= Len(file) /\ SubSeq(file, i, i + 3) = <<"j", "s", "o", "n">>

\* this.filter as the constructor builds it from the regular expression
\* /.*json/: TRUE for the names to leave out.  The cache of this model is
\* constructed with that filter; nothing in index.js reads this.filter.
filter(file) == ~RegExpJson(file)

---------------------------------------------------------------------------
(* The methods of DirectoryCache, as functions of the object's state.      *)
(* `s` holds the fields a method reads or writes, the notifications it has  *)
(* raised so far (events), the exception it threw if any (thrown), and the  *)
(* value it returned (ret).                                                 *)

EmptyCache == [f \in {} |-> Undefined]

Null == [t |-> "null", v |-> "null"]
Error(code) == [t |-> "Error", v |-> code]

This ==
    [hasCache |-> hasCache, cache |-> cache, count |-> count,
     parseJson |-> parseJson, events |-> << >>, thrown |-> NoError,
     ret |-> Undefined]

\* EventEmitter.emit: listeners run synchronously, so what a listener can
\* observe is the state at this point: getFile(file) and count.
emit(s, type, file, data) ==
    [s EXCEPT !.events = Append(@, [type |-> type, file |-> file, data |-> data,
                                    seen |-> getFile(s.cache, file),
                                    seenCount |-> s.count])]

\* a _cacheFile that never decodes: the read content is stored as it is
_cacheFile_undecoded(s, file, data) ==
    IF ~s.hasCache THEN [s EXCEPT !.thrown = "TypeError"]
    ELSE [s EXCEPT !.cache = Put(@, file, data), !.ret = data]

_cacheFile(s, file, data) ==
    LET json == s.parseJson /\ isJsonFile(file)
        parsed == IF json THEN JSONparse(data) ELSE data
    IN IF json /\ parsed = SyntaxError THEN [s EXCEPT !.thrown = "SyntaxError"]
       ELSE IF ~s.hasCache THEN [s EXCEPT !.thrown = "TypeError"]
       ELSE [s EXCEPT !.cache = Put(@, file, parsed), !.ret = parsed]

_addFile(s, file, data) ==
    LET s1 == _cacheFile(s, file, data)
    IN IF s1.thrown # NoError THEN s1
       ELSE emit([s1 EXCEPT !.count = @ + 1], "add", file, s1.ret)

\* `!file in this.cache` parses as `(!file) in this.cache`: the key looked
\* up is "false", whatever the (non-empty) file name is.
NotFile == <<"f", "a", "l", "s", "e">>

_updateFile(s, file, data) ==
    IF ~s.hasCache THEN [s EXCEPT !.thrown = "TypeError"]
    ELSE IF HasKey(s.cache, NotFile) THEN [s EXCEPT !.thrown = "Error"]
    ELSE LET s1 == _cacheFile(s, file, data)
         IN IF s1.thrown # NoError THEN s1
            ELSE emit(s1, "update", file, s1.ret)

_deleteFile(s, file) ==
    IF ~s.hasCache THEN [s EXCEPT !.thrown = "TypeError"]
    ELSE IF HasKey(s.cache, file)
         THEN LET data == getFile(s.cache, file)
                  s1 == [s EXCEPT !.cache = Remove(@, file), !.count = @ - 1]
              IN [emit(s1, "delete", file, data) EXCEPT !.ret = data]
         ELSE s

\* maybeEmitError is passed unbound, so `this` is the global object, which
\* has no emit: a non-null err ends in a TypeError instead of an 'error' event.
maybeEmitError(s, err) ==
    IF err # Null THEN [s EXCEPT !.thrown = "TypeError"] ELSE s

\* initSequenceDone: init()'s callback, recorded with the notifications.
initSequenceDone(s, err) ==
    [s EXCEPT !.events = Append(@, [type |-> "initCallback", file |-> NoName,
                                    data |-> err,
                                    seen |-> Undefined, seenCount |-> s.count])]

\* attachWatcher's effect on the listener registry
attachWatcher(ls, w) == [ls EXCEPT ![w] = @ + 1]

\* _.map(files, deleteOne), run once per registered 'delete' listener;
\* an exception ends the whole dispatch.
RECURSIVE deleteAll(_, _)
deleteAll(s, files) ==
    IF s.thrown # NoError \/ files = << >> THEN s
    ELSE deleteAll(_deleteFile(s, Head(files)), Tail(files))

RECURSIVE onDelete(_, _, _)
onDelete(s, files, times) ==
    IF s.thrown # NoError \/ times = 0 THEN s
    ELSE onDelete(deleteAll(s, files), files, times - 1)

---------------------------------------------------------------------------
(* Pipelines in flight: async.seq(pathJoin, stat, maybeRead, _addFile or   *)
(* _updateFile) applied to one file by async.map.                          *)

\* Requests to the file system.  fs.stat and fs.readFile are served off the
\* event loop, and their callbacks run later, after whatever callbacks
\* were already due: the answer is what the directory held when the request
\* was served.  A request in flight carries its answer so far:
\*   Live        not served yet: it will see the directory as it is then;
\*   Opened(size, got)
\*               fs.readFile has opened the file and taken its size, and
\*               has read the bytes `got` so far;
\*   an entry    served: what fs.stat found, or what fs.readFile read.
\* fs.readFile opens the file, takes its size and then reads until it has
\* that many bytes or a read returns none; it returns to the event loop
\* between any two of these, so the file can change in between, and each
\* read gets the bytes the file holds at that moment.
\* A request is served at some moment between its dispatch and its callback;
\* the moment matters only relative to the changes of its file, so it is
\* each change of a file that decides which of the requests in flight on
\* that file were served before it.
Live == [kind |-> "live", content |-> ""]
Opened(size, got) == [kind |-> "opened", content |-> got, size |-> size]

\* the bytes one read of fs.readFile gets from a file that holds raw now:
\* those from the position of the descriptor, which is behind the bytes read
\* so far, to the end of the file, and no more than are missing from the size
\* taken at the open; when that size was 0 the read asks for a whole buffer,
\* which is longer than any of the contents
chunk(a, raw) ==
    LET pos == Len(a.content)
        end == IF a.size = 0 \/ Len(raw) < a.size THEN Len(raw) ELSE a.size
    IN IF pos >= end THEN "" ELSE SubSeq(raw, pos + 1, end)

\* the read after one more read on a file that holds raw: it is over when
\* the read got no bytes or the size taken at the open is reached
readStep(a, raw) ==
    LET got == a.content \o chunk(a, raw)
    IN IF chunk(a, raw) = "" \/ (a.size # 0 /\ Len(got) = a.size) THEN File(got)
       ELSE Opened(a.size, got)

\* the read carried to its end on a file that holds raw
RECURSIVE readAll(_, _)
readAll(a, raw) ==
    IF a.kind # "opened" THEN a ELSE readAll(readStep(a, raw), raw)

\* the read after any number of reads on a file that holds raw
RECURSIVE reads(_, _)
reads(a, raw) ==
    IF a.kind # "opened" THEN {a} ELSE {a} \cup reads(readStep(a, raw), raw)

\* what request q can have got by the time the entry of its file changes
\* from old to new
Served(q, old, new) ==
    CASE q.phase = "stat" /\ q.ans = Live ->
            IF old.kind = new.kind THEN {q}
            ELSE {q, [q EXCEPT !.ans = [kind |-> old.kind, content |-> ""]]}
      [] q.phase = "read" /\ q.ans = Live ->
            {q, [q EXCEPT !.ans = old]}
               \cup (IF old.kind = "file" /\ new.kind = "file"
                     THEN {[q EXCEPT !.ans = a] :
                              a \in reads(Opened(Len(old.content), ""), old.content)}
                     ELSE {})
      [] q.phase = "read" /\ q.ans.kind = "opened" ->
            IF new.kind = "file"
            THEN {[q EXCEPT !.ans = a] : a \in reads(q.ans, old.content)}
            \* an unlinked file stays readable through the open descriptor
            ELSE {[q EXCEPT !.ans = readAll(q.ans, old.content)]}
      [] OTHER -> {q}

\* the requests in flight after the entry of f has changed to new: each one
\* on f was served before the change or was not
Settle(bag, f, new) ==
    LET old == disk[f]
        hit == {q \in BagToSet(bag) : q.file = f /\ Served(q, old, new) # {q}}
        slots == UNION {{<<q, i>> : i \in 1..CopiesIn(q, bag)} : q \in hit}
        outs == UNION {Served(q, old, new) : q \in hit}
        rest == [q \in BagToSet(bag) \ hit |-> CopiesIn(q, bag)]
    IN {rest (+) [r \in {c[x] : x \in slots} |-> Cardinality({x \in slots : c[x] = r})] :
           c \in {d \in [slots -> outs] : \A x \in slots : d[x] \in Served(x[1], old, new)}}

\* the answer the callback of request p is called with
Answer(p) ==
    CASE p.ans = Live -> disk[p.file]
      [] p.ans.kind = "opened" -> readAll(p.ans, disk[p.file].content)
      [] OTHER -> p.ans

\* the listing in flight after the entry of f has changed to new: when a
\* name appears or disappears, fs.readdir was served before that or was not
Relist(f, new) ==
    IF listing = LiveListing /\ (disk[f] = Absent) # (new = Absent)
    THEN {listing, Listed({g \in Names : disk[g] # Absent})}
    ELSE {listing}

\* the names handed to the callback of fs.readdir
ListingAnswer ==
    IF listing.kind = "listed" THEN listing.names ELSE {g \in Names : disk[g] # Absent}

Pipeline(file, op, batch) ==
    [file |-> file, op |-> op, phase |-> "stat", batch |-> batch, post |-> stopped,
     ans |-> Live]

\* mapFiles(operation, files, callback), dispatched `times` times
mapFiles(op, files, batch, times) ==
    LET S == {Pipeline(files[i], op, batch) : i \in 1..Len(files)}
    IN [p \in S |-> times * Cardinality({i \in 1..Len(files) : files[i] = p.file})]

RECURSIVE SeqOf(_)
SeqOf(S) == IF S = {} THEN << >>
            ELSE LET x == CHOOSE y \in S : TRUE IN <<x>> \o SeqOf(S \ {x})

\* the batches a watcher reports: one name, or two (possibly the same twice)
Batches == {<<f>> : f \in Names} \cup {<<f, g>> : f \in Names, g \in Names}

InFlight == BagToSet(inflight)

InitPipelines == {p \in InFlight : p.batch = "init"}

NotRead == [data |-> [t |-> "none", v |-> "none"], pj |-> FALSE]
NoReads == [f \in Names |-> NotRead]

---------------------------------------------------------------------------
(* Initial state: a freshly constructed cache over some directory          *)

Step(op, files) == [op |-> op, files |-> files]

Init ==
    /\ disk \in [Names -> InitialEntries]
    /\ hasCache = FALSE
    /\ cache = EmptyCache
    /\ count = 0
    /\ parseJson = TRUE
    /\ attached = NoWatcher
    /\ watcher = NoWatcher
    /\ listeners = [w \in Watchers |-> 0]
    /\ inflight = EmptyBag
    /\ initPhase = "idle"
    /\ initFiles = {}
    /\ initRead = NoReads
    /\ notified = FALSE
    /\ stopped = FALSE
    /\ uncaught = NoError
    /\ calls = 0
    /\ last = Step("new", << >>)
    /\ events = << >>
    /\ filterArg = "regexp"
    /\ lastCount = 0
    /\ keys = << >>
    /\ built = 0
    /\ legacyAsync = FALSE
    /\ listing = NoListing

Running == uncaught = NoError

DuringInit == initPhase \in {"creating", "mapping"}

\* initFiles, initRead and notified describe the init() that is running; they
\* are still there in the state its callback is invoked in, and cleared by
\* the step after.
KeptFiles == IF DuringInit THEN initFiles ELSE {}
KeptReads == IF DuringInit THEN initRead ELSE NoReads
KeptNotified == IF DuringInit THEN notified ELSE FALSE

InitGhosts ==
    /\ initFiles' = KeptFiles
    /\ initRead' = KeptReads
    /\ notified' = KeptNotified

\* the fields a method call leaves behind
Commit(s) ==
    /\ hasCache' = s.hasCache
    /\ cache' = s.cache
    /\ count' = s.count
    /\ events' = s.events
    /\ uncaught' = s.thrown

\* a step of the environment, within the budget of the run
EnvStep ==
    /\ Running
    /\ calls < MaxCalls
    /\ calls' = calls + 1

Room(n) == BagCardinality(inflight) + n <= MaxInFlight

---------------------------------------------------------------------------
(* The environment: the directory on disk                                  *)

\* fs.writeFile opens the file with truncation, creating it when it is not
\* there, and returns to the event loop: the file exists with length 0
DiskTruncate(f) ==
    /\ EnvStep
    /\ last' = Step("disk", << >>)
    /\ disk[f].kind # "dir"
    /\ disk[f] # File(C_empty)
    /\ disk' = [disk EXCEPT ![f] = File(C_empty)]
    /\ inflight' \in Settle(inflight, f, File(C_empty))
    /\ listing' \in Relist(f, File(C_empty))
    /\ InitGhosts
    /\ events' = << >>
    /\ UNCHANGED <<filterArg, lastCount, keys, built, legacyAsync>>
    /\ UNCHANGED <<hasCache, cache, count, parseJson, attached, watcher,
                   listeners, initPhase, stopped, uncaught>>

\* fs.writeFile writes the content into the file it has opened
DiskWrite(f, raw) ==
    /\ EnvStep
    /\ last' = Step("disk", << >>)
    /\ disk[f] = File(C_empty)
    /\ disk' = [disk EXCEPT ![f] = File(raw)]
    /\ inflight' \in Settle(inflight, f, File(raw))
    /\ InitGhosts
    /\ events' = << >>
    /\ UNCHANGED <<filterArg, lastCount, keys, built, legacyAsync, listing>>
    /\ UNCHANGED <<hasCache, cache, count, parseJson, attached, watcher,
                   listeners, initPhase, stopped, uncaught>>

DiskMkdir(f) ==
    /\ EnvStep
    /\ last' = Step("disk", << >>)
    /\ disk[f] = Absent
    /\ disk' = [disk EXCEPT ![f] = Dir]
    /\ inflight' \in Settle(inflight, f, Dir)
    /\ listing' \in Relist(f, Dir)
    /\ InitGhosts
    /\ events' = << >>
    /\ UNCHANGED <<filterArg, lastCount, keys, built, legacyAsync>>
    /\ UNCHANGED <<hasCache, cache, count, parseJson, attached, watcher,
                   listeners, initPhase, stopped, uncaught>>

DiskRemove(f) ==
    /\ EnvStep
    /\ last' = Step("disk", << >>)
    /\ disk[f] # Absent
    /\ disk' = [disk EXCEPT ![f] = Absent]
    /\ inflight' \in Settle(inflight, f, Absent)
    /\ listing' \in Relist(f, Absent)
    /\ InitGhosts
    /\ events' = << >>
    /\ UNCHANGED <<filterArg, lastCount, keys, built, legacyAsync>>
    /\ UNCHANGED <<hasCache, cache, count, parseJson, attached, watcher,
                   listeners, initPhase, stopped, uncaught>>

---------------------------------------------------------------------------
(* Public methods called by the application                                *)

disableJsonParsing ==
    /\ EnvStep
    /\ last' = Step("disableJsonParsing", << >>)
    /\ parseJson
    /\ parseJson' = FALSE
    /\ InitGhosts
    /\ events' = << >>
    /\ UNCHANGED <<filterArg, lastCount, keys, built, legacyAsync, listing>>
    /\ UNCHANGED <<disk, hasCache, cache, count, attached, watcher, listeners,
                   inflight, initPhase, stopped, uncaught>>

enableJsonParsing ==
    /\ EnvStep
    /\ last' = Step("enableJsonParsing", << >>)
    /\ ~parseJson
    /\ parseJson' = TRUE
    /\ InitGhosts
    /\ events' = << >>
    /\ UNCHANGED <<filterArg, lastCount, keys, built, legacyAsync, listing>>
    /\ UNCHANGED <<disk, hasCache, cache, count, attached, watcher, listeners,
                   inflight, initPhase, stopped, uncaught>>

\* attachWatcher(watcher) called by the application with its own watcher

AttachWatcher ==
    /\ EnvStep
    /\ last' = Step("attachWatcher", << >>)
    /\ listeners' = attachWatcher(listeners, MockWatcher)
    /\ attached' = MockWatcher
    /\ InitGhosts
    /\ events' = << >>
    /\ UNCHANGED <<filterArg, lastCount, keys, built, legacyAsync, listing>>
    /\ UNCHANGED <<disk, hasCache, cache, count, parseJson, watcher, inflight,
                   initPhase, stopped, uncaught>>

\* the listeners stop() removes and the watcher it kills: those of this.watcher
stop(ls) ==
    IF watcher # NoWatcher THEN [ls EXCEPT ![watcher] = 0] ELSE ls

\* stop(), called once init() has called back without error
Stop ==
    /\ EnvStep
    /\ initPhase = "done"
    /\ last' = Step("stop", << >>)
    /\ listeners' = stop(listeners)
    /\ stopped' = TRUE
    /\ InitGhosts
    /\ events' = << >>
    /\ UNCHANGED <<filterArg, lastCount, keys, built, legacyAsync, listing>>
    /\ UNCHANGED <<disk, hasCache, cache, count, parseJson, attached, watcher,
                   inflight, initPhase, uncaught>>

\* mapFiles(this._joinStatReadAdd, files, done) of init(): with no file to
\* map, async.map calls back at once.

StartMapping(files) ==
    /\ inflight' = inflight (+) mapFiles("add", SeqOf(files), "init", 1)
    /\ initFiles' = files
    /\ initRead' = NoReads
    /\ notified' = (BagToSet(inflight) # {})
    /\ IF files = {}
       THEN /\ initPhase' = "done"
            /\ events' = initSequenceDone([This EXCEPT !.hasCache = TRUE,
                                                       !.cache = EmptyCache], Null).events
       ELSE /\ initPhase' = "mapping"
            /\ events' = << >>

\* init(initCallback); a second call while the first is still running is
\* outside the contract (single caller assumed) and not modelled.
InitCall ==
    /\ EnvStep
    /\ ~stopped
    /\ last' = Step("init", << >>)
    /\ initPhase \in {"idle", "done", "failed"}
    /\ InitPipelines = {}
    /\ hasCache' = TRUE
    /\ cache' = EmptyCache
    /\ IF attached = NoWatcher
       THEN /\ initPhase' = "creating"
            /\ notified' = (BagToSet(inflight) # {})
            /\ events' = << >>
            /\ initFiles' = {}
            /\ initRead' = NoReads
            /\ UNCHANGED inflight
       ELSE \E files \in SUBSET Names : Room(Cardinality(files)) /\ StartMapping(files)
    /\ UNCHANGED <<filterArg, lastCount, keys, built, legacyAsync, listing>>
    /\ UNCHANGED <<disk, count, parseJson, attached, watcher, listeners, stopped, uncaught>>

\* DirectoryWatcher.create's callback inside init(): the new watcher lists
\* the directory as it is now.
WatcherCreated ==
    /\ Running
    /\ last' = Step("created", << >>)
    /\ initPhase = "creating"
    /\ Room(Cardinality({f \in Names : disk[f] # Absent}))
    /\ listeners' = attachWatcher(listeners, OwnWatcher)
    /\ attached' = OwnWatcher
    /\ notified' = notified
    /\ LET files == {f \in Names : disk[f] # Absent}
       IN /\ inflight' = inflight (+) mapFiles("add", SeqOf(files), "init", 1)
          /\ initFiles' = files
          /\ initRead' = NoReads
          /\ IF files = {}
             THEN /\ initPhase' = "done"
                  /\ events' = initSequenceDone(This, Null).events
             ELSE /\ initPhase' = "mapping"
                  /\ events' = << >>
    /\ UNCHANGED <<filterArg, lastCount, keys, built, legacyAsync, listing>>
    /\ UNCHANGED <<disk, hasCache, cache, count, parseJson, watcher, stopped,
                   uncaught, calls>>

WatcherCreateFailed ==
    /\ Running
    /\ last' = Step("created", << >>)
    /\ initPhase = "creating"
    /\ initPhase' = "failed"
    /\ InitGhosts
    /\ events' = initSequenceDone(This, Error("ENOENT")).events
    /\ UNCHANGED <<filterArg, lastCount, keys, built, legacyAsync, listing>>
    /\ UNCHANGED <<disk, hasCache, cache, count, parseJson, attached, watcher,
                   listeners, inflight, stopped, uncaught, calls>>

---------------------------------------------------------------------------
(* Watcher notifications, routed by the listeners attachWatcher registered *)

\* watcher.on('add', ...)
OnAdd(w, files) ==
    /\ EnvStep
    /\ last' = Step("add", files)
    /\ listeners[w] > 0
    /\ Room(Len(files) * listeners[w])
    /\ inflight' = inflight (+) mapFiles("add", files, "steady", listeners[w])
    /\ notified' = DuringInit
    /\ initFiles' = KeptFiles
    /\ initRead' = KeptReads
    /\ events' = << >>
    /\ UNCHANGED <<filterArg, lastCount, keys, built, legacyAsync, listing>>
    /\ UNCHANGED <<disk, hasCache, cache, count, parseJson, attached, watcher,
                   listeners, initPhase, stopped, uncaught>>

\* watcher.on('change', ...)
OnChange(w, files) ==
    /\ EnvStep
    /\ last' = Step("change", files)
    /\ listeners[w] > 0
    /\ Room(Len(files) * listeners[w])
    /\ inflight' = inflight (+) mapFiles("update", files, "steady", listeners[w])
    /\ notified' = DuringInit
    /\ initFiles' = KeptFiles
    /\ initRead' = KeptReads
    /\ events' = << >>
    /\ UNCHANGED <<filterArg, lastCount, keys, built, legacyAsync, listing>>
    /\ UNCHANGED <<disk, hasCache, cache, count, parseJson, attached, watcher,
                   listeners, initPhase, stopped, uncaught>>

\* watcher.on('delete', ...)
OnDelete(w, files) ==
    /\ EnvStep
    /\ last' = Step("delete", files)
    /\ listeners[w] > 0
    /\ Commit(onDelete(This, files, listeners[w]))
    /\ notified' = DuringInit
    /\ initFiles' = KeptFiles
    /\ initRead' = KeptReads
    /\ UNCHANGED <<filterArg, lastCount, keys, built, legacyAsync, listing>>
    /\ UNCHANGED <<disk, parseJson, attached, watcher, listeners, inflight,
                   initPhase, stopped>>

\* watcher.emit('error', err): attachWatcher registers no 'error' listener,
\* so the cache takes no part in the dispatch.  An EventEmitter with no
\* 'error' listener at all throws err at the emitter; whether anyone else
\* listens on the watcher is the environment's choice.
OnError(w) ==
    /\ EnvStep
    /\ last' = Step("error", << >>)
    /\ listeners[w] > 0
    /\ \E thrown \in {NoError, "Error"} : uncaught' = thrown
    /\ InitGhosts
    /\ events' = << >>
    /\ UNCHANGED <<filterArg, lastCount, keys, built, legacyAsync, listing>>
    /\ UNCHANGED <<disk, hasCache, cache, count, parseJson, attached, watcher,
                   listeners, inflight, initPhase, stopped>>

---------------------------------------------------------------------------
(* Completion of the asynchronous stages of a pipeline                     *)

\* the last stage of the pipeline: _addFile or _updateFile
apply(s, p, data) ==
    IF p.op = "add" THEN _addFile(s, p.file, data) ELSE _updateFile(s, p.file, data)

\* the pipeline handed (file, data) to its last stage; when that returns,
\* async.map is called back, and calls its own callback after the last file.
Deliver(p, data) ==
    LET s1 == apply(This, p, data)
        rest == inflight (-) SetToBag({p})
        final == /\ p.batch = "init"
                /\ initPhase = "mapping"
                /\ {q \in BagToSet(rest) : q.batch = "init"} = {}
        s2 == IF s1.thrown = NoError /\ final THEN initSequenceDone(s1, Null) ELSE s1
    IN /\ Commit(s2)
       /\ last' = Step("deliver", << >>)
       /\ inflight' = rest
       /\ initPhase' = IF s1.thrown = NoError /\ final THEN "done" ELSE initPhase
       /\ initRead' = IF p.batch = "init" /\ initPhase = "mapping"
                      THEN [initRead EXCEPT ![p.file] = [data |-> data, pj |-> parseJson]]
                      ELSE KeptReads
       /\ initFiles' = KeptFiles
       /\ notified' = KeptNotified
       /\ UNCHANGED <<filterArg, lastCount, keys, built, legacyAsync, listing>>
       /\ UNCHANGED <<disk, parseJson, attached, watcher, listeners, stopped, calls>>

\* a stage called back with an error: async.map passes the first error of a
\* batch to its callback, done for init() and maybeEmitError otherwise.
Fail(p, err) ==
    LET s1 == IF p.batch = "init"
              THEN (IF initPhase = "mapping" THEN initSequenceDone(This, err) ELSE This)
              ELSE maybeEmitError(This, err)
    IN /\ Commit(s1)
       /\ last' = Step("fail", << >>)
       /\ inflight' = inflight (-) SetToBag({p})
       /\ InitGhosts
       /\ initPhase' = IF p.batch = "init" /\ initPhase = "mapping" THEN "failed" ELSE initPhase
       /\ UNCHANGED <<filterArg, lastCount, keys, built, legacyAsync, listing>>
       /\ UNCHANGED <<disk, parseJson, attached, watcher, listeners, stopped, calls>>

\* fs.stat called back; maybeRead either starts fs.readFile or passes
\* undefined on at once.
StatDone(p) ==
    /\ Running
    /\ BagIn(p, inflight)
    /\ p.phase = "stat"
    /\ CASE Answer(p).kind = "absent" -> Fail(p, Error("ENOENT"))
         [] Answer(p).kind = "dir" -> Deliver(p, Undefined)
         [] Answer(p).kind = "file" ->
              /\ inflight' = (inflight (-) SetToBag({p}))
                                 (+) SetToBag({[p EXCEPT !.phase = "read", !.ans = Live]})
              /\ InitGhosts
              /\ last' = Step("stat", << >>)
              /\ events' = << >>
              /\ UNCHANGED <<filterArg, lastCount, keys, built, legacyAsync, listing>>
              /\ UNCHANGED <<disk, hasCache, cache, count, parseJson, attached, watcher,
                   listeners, initPhase, stopped, uncaught, calls>>

\* fs.readFile called back
ReadDone(p) ==
    /\ Running
    /\ BagIn(p, inflight)
    /\ p.phase = "read"
    /\ CASE Answer(p).kind = "absent" -> Fail(p, Error("ENOENT"))
         [] Answer(p).kind = "dir" -> Fail(p, Error("EISDIR"))
         [] Answer(p).kind = "file" -> Deliver(p, Buffer(Answer(p).content))

\* the callbacks of the requests in flight
StatCallback == \E p \in InFlight : StatDone(p)

ReadCallback == \E p \in InFlight : ReadDone(p)

---------------------------------------------------------------------------

Next ==
    \/ \E f \in Names : DiskTruncate(f)
    \/ \E f \in Names, raw \in Contents : DiskWrite(f, raw)
    \/ \E f \in Names : DiskMkdir(f)
    \/ \E f \in Names : DiskRemove(f)
    \/ disableJsonParsing
    \/ enableJsonParsing
    \/ AttachWatcher
    \/ Stop
    \/ InitCall
    \/ WatcherCreated
    \/ WatcherCreateFailed
    \/ \E w \in Watchers, files \in Batches : OnAdd(w, files)
    \/ \E w \in Watchers, files \in Batches : OnChange(w, files)
    \/ \E w \in Watchers, files \in Batches : OnDelete(w, files)
    \/ \E w \in Watchers : OnError(w)
    \/ StatCallback
    \/ ReadCallback

Spec == Init /\ [][Next]_vars

---------------------------------------------------------------------------
(* The store operations on their own: the last stage of a pipeline called  *)
(* with any name and any read result, _deleteFile, the JSON switches and   *)
(* getFilenames(), on a cache whose init() has completed over an empty      *)
(* listing of an attached watcher.                                          *)

F_AJSON == <<"A", ".", "J", "S", "O", "N">>
F_xjson == <<"x", "j", "s", "o", "n">>
MethodNames == {F_1json, F_AJSON, F_x, F_xjson, F_toString}

\* what maybeRead hands to the last stage: undefined, or the Buffer read
ReadResults == {Undefined, Buffer(C_a1), Buffer(C_xy)}

InitMethods ==
    /\ disk = [f \in Names |-> Absent]
    /\ hasCache = TRUE
    /\ cache = EmptyCache
    /\ count = 0
    /\ parseJson = TRUE
    /\ attached = MockWatcher
    /\ watcher = NoWatcher
    /\ listeners = [w \in Watchers |-> IF w = MockWatcher THEN 1 ELSE 0]
    /\ inflight = EmptyBag
    /\ initPhase = "done"
    /\ initFiles = {}
    /\ initRead = NoReads
    /\ notified = FALSE
    /\ stopped = FALSE
    /\ uncaught = NoError
    /\ calls = 0
    /\ last = Step("init", << >>)
    /\ events = << >>
    /\ filterArg = "regexp"
    /\ lastCount = 0
    /\ keys = << >>
    /\ built = 0
    /\ legacyAsync = FALSE
    /\ listing = NoListing

\* _joinStatReadAdd reaches _addFile(file, data)
AddResult(file, data) ==
    /\ EnvStep
    /\ last' = Step("deliver", <<file>>)
    /\ Commit(_addFile(This, file, data))
    /\ InitGhosts
    /\ UNCHANGED <<filterArg, lastCount, keys, built, legacyAsync, listing>>
    /\ UNCHANGED <<disk, parseJson, attached, watcher, listeners, inflight,
                   initPhase, stopped>>

\* _joinStatReadUpdate reaches _updateFile(file, data)
UpdateResult(file, data) ==
    /\ EnvStep
    /\ last' = Step("deliver", <<file>>)
    /\ Commit(_updateFile(This, file, data))
    /\ InitGhosts
    /\ UNCHANGED <<filterArg, lastCount, keys, built, legacyAsync, listing>>
    /\ UNCHANGED <<disk, parseJson, attached, watcher, listeners, inflight,
                   initPhase, stopped>>

\* the delete handler reaches _deleteFile(file)
DeleteOne(file) ==
    /\ EnvStep
    /\ last' = Step("delete", <<file>>)
    /\ Commit(_deleteFile(This, file))
    /\ InitGhosts
    /\ UNCHANGED <<filterArg, lastCount, keys, built, legacyAsync, listing>>
    /\ UNCHANGED <<disk, parseJson, attached, watcher, listeners, inflight,
                   initPhase, stopped>>

\* getFilenames(): _.keys(this.cache) builds a new array on every call
GetFilenames ==
    /\ EnvStep
    /\ last' = Step("getFilenames", SeqOf(getFilenames(cache)))
    /\ built' = built + 1
    /\ InitGhosts
    /\ events' = << >>
    /\ UNCHANGED <<filterArg, lastCount, keys, legacyAsync, listing>>
    /\ UNCHANGED <<disk, hasCache, cache, count, parseJson, attached, watcher,
                   listeners, inflight, initPhase, stopped, uncaught>>

NextMethods ==
    \/ \E f \in MethodNames, d \in ReadResults : AddResult(f, d)
    \/ \E f \in MethodNames, d \in ReadResults : UpdateResult(f, d)
    \/ \E f \in MethodNames : DeleteOne(f)
    \/ disableJsonParsing
    \/ enableJsonParsing
    \/ GetFilenames

SpecMethods == InitMethods /\ [][NextMethods]_vars

---------------------------------------------------------------------------
(* src/lib/DirectoryCache.js: the earlier implementation of the cache.     *)
(* It reads the directory itself, applies this.filter in grabFiles, reads  *)
(* files with fs.readFile only (no fs.stat), and keeps the array of        *)
(* getFiles() between calls.  Its fields are modelled by the same          *)
(* variables; `watcher` is this.watcher, which this implementation sets.   *)

String(raw) == [t |-> "string", v |-> raw]
Array(items) == [t |-> "Array", v |-> items]

LibInitialEntries == {Absent, Dir, File(C_a1), File(C_xy)}
\* the contents written while this implementation runs: one that is JSON
\* and one that is not
LibContents == {C_a1, C_xy}

\* the function filter of the tests: true for the names ending in .json
functionFilter(file) == isJsonFile(file)

\* a second caller-supplied function: true for the names that do not end in
\* .json
functionFilterNotJson(file) == ~isJsonFile(file)

\* this.filter as the constructor sets it up; the files it returns true for
\* are skipped by grabFiles
filterOf(arg, file) ==
    CASE arg = "none" -> FALSE
      [] arg = "regexp" -> ~RegExpJson(file)
      [] arg = "function" -> functionFilter(file)
      [] arg = "functionNotJson" -> functionFilterNotJson(file)

\* grabFiles: the files a task is pushed for, in order
functors(files) ==
    SelectSeq(files, LAMBDA f : ~filterOf(filterArg, f))

\* addFile(directory, file, callback) up to its fs.readFile call: `json` is
\* decided here, before the read.  `id` tells the batches of one kind on the
\* same files apart.
Task(file, op, batch, id) ==
    [file |-> file, op |-> op, phase |-> "read", batch |-> batch, id |-> id,
     json |-> parseJson /\ isJsonFile(file), dead |-> FALSE, ans |-> Live]

\* the first number no batch of this kind on these files carries in `bag`
NewId(bag, op, files) ==
    LET used == {q.id : q \in {r \in BagToSet(bag) : r.op = op /\ r.batch = files}}
    IN CHOOSE i \in 1..(Cardinality(used) + 1) :
          i \notin used /\ \A j \in 1..(i - 1) : j \in used

\* async.parallel(functors, callback) for one batch
parallel(files, op, id) ==
    LET todo == functors(files)
        S == {Task(todo[i], op, files, id) : i \in 1..Len(todo)}
    IN [q \in S |-> Cardinality({i \in 1..Len(todo) : todo[i] = q.file})]

\* grabFiles called once by each of `times` listeners
RECURSIVE Batched(_, _, _, _)
Batched(bag, files, op, times) ==
    IF times = 0 THEN bag
    ELSE Batched(bag (+) parallel(files, op, NewId(bag, op, files)), files, op, times - 1)

SameBatch(q, r) == q.op = r.op /\ q.batch = r.batch /\ q.id = r.id

\* after async.parallel has called back with an error, the results of the
\* other tasks of the batch no longer reach the batch's callback
Closed(bag, r) ==
    LET mark(q) == IF SameBatch(q, r) THEN [q EXCEPT !.dead = TRUE] ELSE q
        open(q) == [q EXCEPT !.dead = FALSE]
    IN [q \in {mark(x) : x \in BagToSet(bag)} |->
           (IF BagIn(q, bag) THEN CopiesIn(q, bag) ELSE 0)
           + (IF q.dead /\ SameBatch(q, r) /\ BagIn(open(q), bag)
              THEN CopiesIn(open(q), bag) ELSE 0)]

\* the reads that have not called back yet; a task whose read found a file
\* of length 0 stays in the bag (phase "hung"), since its batch waits for it
\* for ever, and takes no room
LiveTasks == {q \in InFlight : q.phase = "read"}

LibRoom(n) ==
    BagCardinality([q \in LiveTasks |-> CopiesIn(q, inflight)]) + n <= MaxInFlight

\* the readFile callback of addFile, for content of length > 0
addFile(s, file, json, raw) ==
    LET data == IF json THEN JSONparse(Buffer(raw)) ELSE String(raw)
    IN IF data = SyntaxError THEN [s EXCEPT !.thrown = "SyntaxError"]
       ELSE IF ~s.hasCache THEN [s EXCEPT !.thrown = "TypeError"]
       ELSE [s EXCEPT !.count = IF getFile(s.cache, file) = Undefined THEN @ + 1 ELSE @,
                      !.cache = Put(@, file, data),
                      !.ret = data]

deleteFile(s, file) ==
    IF ~s.hasCache THEN [s EXCEPT !.thrown = "TypeError"]
    ELSE emit([s EXCEPT !.cache = Remove(@, file), !.count = @ - 1],
              "deleted", file, Undefined)

RECURSIVE deleteEach(_, _)
deleteEach(s, files) ==
    IF s.thrown # NoError \/ files = << >> THEN s
    ELSE deleteEach(deleteFile(s, Head(files)), Tail(files))

\* onFilesDeletedEvent, run once by each of `times` listeners
RECURSIVE onFilesDeletedEvent(_, _, _)
onFilesDeletedEvent(s, files, times) ==
    IF s.thrown # NoError \/ times = 0 THEN s
    ELSE LET s1 == deleteEach(s, files)
         IN onFilesDeletedEvent(
               IF s1.thrown # NoError THEN s1
               ELSE emit(s1, "files deleted", NoName, Array(files)),
               files, times - 1)

InitLib ==
    /\ disk \in [Names -> LibInitialEntries]
    /\ filterArg \in {"none", "regexp", "function", "functionNotJson"}
    /\ legacyAsync \in BOOLEAN
    /\ listing = NoListing
    /\ watcher \in {NoWatcher, MockWatcher}
    /\ hasCache = FALSE
    /\ cache = EmptyCache
    /\ count = 0
    /\ lastCount = 0
    /\ keys = << >>
    /\ built = 0
    /\ parseJson = TRUE
    /\ attached = NoWatcher
    /\ listeners = [w \in Watchers |-> 0]
    /\ inflight = EmptyBag
    /\ initPhase = "idle"
    /\ initFiles = {}
    /\ initRead = NoReads
    /\ notified = FALSE
    /\ stopped = FALSE
    /\ uncaught = NoError
    /\ calls = 0
    /\ last = Step("new", << >>)
    /\ events = << >>

LibFrame ==
    UNCHANGED <<filterArg, legacyAsync, attached, initFiles, initRead, notified, stopped>>

\* connectToWatcher and connectToWatcherImpl, then initSequenceDone: with a
\* watcher in this.watcher the listeners are hooked at once, otherwise
\* DirectoryWatcher.create is awaited
connectToWatcher(s) ==
    IF watcher # NoWatcher
    THEN /\ listeners' = attachWatcher(listeners, watcher)
         /\ initPhase' = "done"
         /\ events' = initSequenceDone(s, Null).events
    ELSE /\ initPhase' = "creating"
         /\ events' = s.events
         /\ UNCHANGED listeners

\* async.parallel of init's grabFiles calls the waterfall's callback for the
\* stage connectToWatcher: later releases of async call the stage at once,
\* 0.2.x queues it with setImmediate and returns to the event loop
nextStage(s) ==
    IF legacyAsync
    THEN /\ initPhase' = "grabbed"
         /\ events' = s.events
         /\ UNCHANGED listeners
    ELSE connectToWatcher(s)

\* the reads of the running init() that can still call back
InitTasks == {q \in LiveTasks : q.op = "init" /\ ~q.dead}

\* init(initCallback) up to fs.readdir.  Nothing in init() checks that it
\* has not run before: it is called on a new cache, again after it has called
\* back, or again when the reads of the previous call have all ended without
\* the callback being invoked (a second call while the first can still make
\* progress is outside the contract and not modelled).
LibInit ==
    /\ EnvStep
    /\ \/ initPhase \in {"idle", "done", "failed"}
       \/ initPhase = "grabbing" /\ InitTasks = {}
    /\ last' = Step("init", << >>)
    /\ hasCache' = TRUE
    /\ cache' = EmptyCache
    /\ IF legacyAsync
       THEN initPhase' = "called" /\ listing' = NoListing
       ELSE initPhase' = "listing" /\ listing' = LiveListing
    /\ events' = << >>
    /\ LibFrame
    /\ UNCHANGED <<disk, count, lastCount, keys, built, parseJson, watcher,
                   listeners, inflight, uncaught>>

\* async 0.2.x: the setImmediate callback queued by async.waterfall runs
\* readInitially, which requests fs.readdir
ReadInitiallyStage ==
    /\ Running
    /\ initPhase = "called"
    /\ last' = Step("readInitially", << >>)
    /\ initPhase' = "listing"
    /\ listing' = LiveListing
    /\ events' = << >>
    /\ LibFrame
    /\ UNCHANGED <<disk, hasCache, cache, count, lastCount, keys, built, parseJson,
                   watcher, listeners, inflight, uncaught, calls>>

\* grabFiles(files, callback) as a stage of init(): the reads are started,
\* and with no read to start async.parallel calls back at once
grabFiles(files) ==
    /\ LibRoom(Len(functors(files)))
    /\ inflight' = Batched(inflight, files, "init", 1)
    /\ IF functors(files) = << >>
       THEN nextStage(This)
       ELSE /\ initPhase' = "grabbing"
            /\ events' = << >>
            /\ UNCHANGED listeners

\* fs.readdir called back with the listing it was served.  Later releases of
\* async call grabFiles at once; 0.2.x queues it with setImmediate and
\* returns to the event loop, the listing in hand.
ReaddirDone ==
    /\ Running
    /\ initPhase = "listing"
    /\ last' = Step("readdir", SeqOf(ListingAnswer))
    /\ IF legacyAsync
       THEN /\ initPhase' = "listed"
            /\ listing' = Listed(ListingAnswer)
            /\ events' = << >>
            /\ UNCHANGED <<inflight, listeners>>
       ELSE /\ grabFiles(SeqOf(ListingAnswer))
            /\ listing' = NoListing
    /\ LibFrame
    /\ UNCHANGED <<disk, hasCache, cache, count, lastCount, keys, built, parseJson,
                   watcher, uncaught, calls>>

\* async 0.2.x: the setImmediate callback queued by async.waterfall runs
\* grabFiles on the listing
GrabFilesStage ==
    /\ Running
    /\ initPhase = "listed"
    /\ last' = Step("grabFiles", SeqOf(listing.names))
    /\ grabFiles(SeqOf(listing.names))
    /\ listing' = NoListing
    /\ LibFrame
    /\ UNCHANGED <<disk, hasCache, cache, count, lastCount, keys, built, parseJson,
                   watcher, uncaught, calls>>

\* async 0.2.x: the setImmediate callback queued by async.waterfall runs
\* connectToWatcher
ConnectStage ==
    /\ Running
    /\ initPhase = "grabbed"
    /\ last' = Step("connectToWatcher", << >>)
    /\ connectToWatcher(This)
    /\ LibFrame
    /\ UNCHANGED <<disk, hasCache, cache, count, lastCount, keys, built, parseJson,
                   watcher, inflight, uncaught, calls, listing>>

\* fs.readdir called back with an error
ReaddirFailed ==
    /\ Running
    /\ initPhase = "listing"
    /\ last' = Step("readdir", << >>)
    /\ initPhase' = "failed"
    /\ events' = initSequenceDone(This, Error("ENOENT")).events
    /\ LibFrame
    /\ listing.kind = "live"
    /\ listing' = NoListing
    /\ UNCHANGED <<disk, hasCache, cache, count, lastCount, keys, built, parseJson,
                   watcher, listeners, inflight, uncaught, calls>>

\* DirectoryWatcher.create called back inside connectToWatcher
LibWatcherCreated ==
    /\ Running
    /\ initPhase = "creating"
    /\ last' = Step("created", << >>)
    /\ watcher' = OwnWatcher
    /\ listeners' = attachWatcher(listeners, OwnWatcher)
    /\ initPhase' = "done"
    /\ events' = initSequenceDone(This, Null).events
    /\ LibFrame
    /\ UNCHANGED listing
    /\ UNCHANGED <<disk, hasCache, cache, count, lastCount, keys, built, parseJson,
                   inflight, uncaught, calls>>

LibWatcherCreateFailed ==
    /\ Running
    /\ initPhase = "creating"
    /\ last' = Step("created", << >>)
    /\ initPhase' = "failed"
    /\ events' = initSequenceDone(This, Error("ENOENT")).events
    /\ LibFrame
    /\ UNCHANGED listing
    /\ UNCHANGED <<disk, hasCache, cache, count, lastCount, keys, built, parseJson,
                   watcher, listeners, inflight, uncaught, calls>>

\* the callback the last task of p's batch reaches: the next stage of
\* init(), the listener's callback, or the callback of a direct caller
BatchDone(s, p) ==
    CASE p.op = "init" -> nextStage(s)
      [] p.op = "direct" ->
            /\ events' = s.events
            /\ UNCHANGED <<initPhase, listeners>>
      [] OTHER ->
            /\ events' = emit(s, IF p.op = "added" THEN "files added" ELSE "files changed",
                              NoName, Array(functors(p.batch))).events
            /\ UNCHANGED <<initPhase, listeners>>

\* fs.readFile called back inside addFile
LibReadDone(p) ==
    /\ Running
    /\ BagIn(p, inflight)
    /\ p.phase = "read"
    /\ last' = Step("read", <<p.file>>)
    /\ LET rest == inflight (-) SetToBag({p})
           entry == Answer(p)
       IN CASE entry.kind # "file" ->
                 \* callback(err): the first error of a batch ends it
                 /\ inflight' = Closed(rest, p)
                 /\ IF ~p.dead /\ p.op = "init"
                    THEN /\ initPhase' = "failed"
                         /\ events' = initSequenceDone(This,
                                         Error(IF entry.kind = "dir" THEN "EISDIR"
                                               ELSE "ENOENT")).events
                    ELSE /\ events' = << >>
                         /\ UNCHANGED initPhase
                 /\ UNCHANGED <<hasCache, cache, count, uncaught, listeners>>
            [] entry = File(C_empty) ->
                 \* data.length is 0: nothing is stored and callback is not called
                 /\ inflight' = rest (+) SetToBag({[p EXCEPT !.phase = "hung", !.ans = Live]})
                 /\ events' = << >>
                 /\ UNCHANGED <<hasCache, cache, count, uncaught, listeners, initPhase>>
            [] OTHER ->
                 LET s1 == addFile(This, p.file, p.json, entry.content)
                     finished == /\ s1.thrown = NoError
                                 /\ ~p.dead
                                 /\ \A q \in BagToSet(rest) : ~SameBatch(q, p)
                 IN /\ inflight' = rest
                    /\ hasCache' = s1.hasCache
                    /\ cache' = s1.cache
                    /\ count' = s1.count
                    /\ uncaught' = s1.thrown
                    /\ IF finished THEN BatchDone(s1, p)
                       ELSE /\ events' = << >>
                            /\ UNCHANGED <<initPhase, listeners>>
    /\ LibFrame
    /\ UNCHANGED listing
    /\ UNCHANGED <<disk, lastCount, keys, built, parseJson, watcher, calls>>

LibReadCallback == \E p \in InFlight : LibReadDone(p)

\* the callback of grabFiles in a listener, run once per listener when there
\* was no task to run: a release of async that calls back without arguments
\* makes `err !== null` true, and logger.error(undefined) is all that happens
RECURSIVE emitEach(_, _, _)
emitEach(s, type, times) ==
    IF times = 0 THEN s
    ELSE emitEach(emit(s, type, NoName, Array(<< >>)), type, times - 1)

\* grabFiles(files, callback) called by the 'added' / 'changed' listeners;
\* with no task to run async.parallel calls back at once
grab(files, op, times) ==
    /\ LibRoom(Len(functors(files)) * times)
    /\ inflight' = Batched(inflight, files, op, times)
    /\ IF functors(files) = << >> /\ ~legacyAsync
       THEN events' = emitEach(This, IF op = "added" THEN "files added" ELSE "files changed",
                               times).events
       ELSE events' = << >>

\* _watcher.on('added', onFilesAddedEvent)
OnFilesAdded(w, files) ==
    /\ EnvStep
    /\ listeners[w] > 0
    /\ last' = Step("added", files)
    /\ grab(files, "added", listeners[w])
    /\ LibFrame
    /\ UNCHANGED listing
    /\ UNCHANGED <<disk, hasCache, cache, count, lastCount, keys, built, parseJson,
                   watcher, listeners, initPhase, uncaught>>

\* _watcher.on('changed', onFilesChangedEvent)
OnFilesChanged(w, files) ==
    /\ EnvStep
    /\ listeners[w] > 0
    /\ last' = Step("changed", files)
    /\ grab(files, "changed", listeners[w])
    /\ LibFrame
    /\ UNCHANGED listing
    /\ UNCHANGED <<disk, hasCache, cache, count, lastCount, keys, built, parseJson,
                   watcher, listeners, initPhase, uncaught>>

\* _watcher.on('deleted', onFilesDeletedEvent)
OnFilesDeleted(w, files) ==
    /\ EnvStep
    /\ listeners[w] > 0
    /\ last' = Step("deleted", files)
    /\ Commit(onFilesDeletedEvent(This, files, listeners[w]))
    /\ LibFrame
    /\ UNCHANGED listing
    /\ UNCHANGED <<disk, lastCount, keys, built, parseJson, watcher,
                   listeners, inflight, initPhase>>

\* addFile(directory, file, callback) called by the application on the
\* cache's directory: the file is read and stored whatever the filter says,
\* and no event is raised
AddFileCall(f) ==
    /\ EnvStep
    /\ LibRoom(1)
    /\ last' = Step("addFile", <<f>>)
    /\ inflight' = inflight (+) SetToBag({Task(f, "direct", <<f>>,
                                               NewId(inflight, "direct", <<f>>))})
    /\ events' = << >>
    /\ LibFrame
    /\ UNCHANGED listing
    /\ UNCHANGED <<disk, hasCache, cache, count, lastCount, keys, built, parseJson,
                   watcher, listeners, initPhase, uncaught>>

\* deleteFile(file) called by the application
DeleteFileCall(f) ==
    /\ EnvStep
    /\ last' = Step("deleteFile", <<f>>)
    /\ Commit(deleteFile(This, f))
    /\ LibFrame
    /\ UNCHANGED listing
    /\ UNCHANGED <<disk, lastCount, keys, built, parseJson, watcher,
                   listeners, inflight, initPhase>>

\* getFiles(): the array is rebuilt only when count differs from lastCount
GetFiles ==
    /\ EnvStep
    /\ IF lastCount # count
       THEN /\ keys' = SeqOf(getFilenames(cache))
            /\ lastCount' = count
            /\ built' = built + 1
       ELSE UNCHANGED <<keys, lastCount, built>>
    /\ last' = Step("getFiles", keys')
    /\ events' = << >>
    /\ LibFrame
    /\ UNCHANGED listing
    /\ UNCHANGED <<disk, hasCache, cache, count, parseJson, watcher, listeners,
                   inflight, initPhase, uncaught>>

NextLib ==
    \/ \E f \in Names : DiskTruncate(f)
    \/ \E f \in Names, raw \in LibContents : DiskWrite(f, raw)
    \/ \E f \in Names : DiskMkdir(f)
    \/ \E f \in Names : DiskRemove(f)
    \/ disableJsonParsing
    \/ enableJsonParsing
    \/ LibInit
    \/ ReadInitiallyStage
    \/ ReaddirDone
    \/ ReaddirFailed
    \/ GrabFilesStage
    \/ ConnectStage
    \/ LibWatcherCreated
    \/ LibWatcherCreateFailed
    \/ LibReadCallback
    \/ \E w \in Watchers, files \in Batches : OnFilesAdded(w, files)
    \/ \E w \in Watchers, files \in Batches : OnFilesChanged(w, files)
    \/ \E w \in Watchers, files \in Batches : OnFilesDeleted(w, files)
    \/ \E f \in Names : AddFileCall(f)
    \/ \E f \in Names : DeleteFileCall(f)
    \/ GetFiles

SpecLib == InitLib /\ [][NextLib]_vars

\* the event loop runs every callback that is due: a listing, a watcher
\* creation or a read that was started does call back
SpecLibFair ==
    /\ SpecLib
    /\ WF_vars(ReadInitiallyStage)
    /\ WF_vars(ReaddirDone \/ ReaddirFailed)
    /\ WF_vars(GrabFilesStage)
    /\ WF_vars(ConnectStage)
    /\ WF_vars(LibWatcherCreated \/ LibWatcherCreateFailed)
    /\ WF_vars(LibReadCallback)

---------------------------------------------------------------------------
(* The cache under a watcher that reports every change: init() is called   *)
(* on a fresh cache with no watcher attached, the watcher it creates lists *)
(* the directory as it is, and from then on every change of the directory  *)
(* is followed at once by the watcher's notification for it, dispatched to *)
(* the listeners attachWatcher registered, while the probes and reads      *)
(* dispatched earlier are still in flight.                                 *)

\* the state init(initCallback) leaves behind on a fresh cache with no
\* watcher attached: DirectoryWatcher.create has been called
InitMirror ==
    /\ disk \in [Names -> InitialEntries]
    /\ hasCache = TRUE
    /\ cache = EmptyCache
    /\ count = 0
    /\ parseJson = TRUE
    /\ attached = NoWatcher
    /\ watcher = NoWatcher
    /\ listeners = [w \in Watchers |-> 0]
    /\ inflight = EmptyBag
    /\ initPhase = "creating"
    /\ initFiles = {}
    /\ initRead = NoReads
    /\ notified = FALSE
    /\ stopped = FALSE
    /\ uncaught = NoError
    /\ calls = 1
    /\ last = Step("init", << >>)
    /\ events = << >>
    /\ filterArg = "regexp"
    /\ lastCount = 0
    /\ keys = << >>
    /\ built = 0
    /\ legacyAsync = FALSE
    /\ listing = NoListing

\* what every step of a running init() keeps of its bookkeeping when a
\* notification is processed
NotifiedGhosts ==
    /\ notified' = DuringInit
    /\ initFiles' = KeptFiles
    /\ initRead' = KeptReads

\* fs.writeFile opens a file with truncation, creating it when it is not
\* there: the file has length 0, and the watcher emits 'add' for a new name,
\* 'change' for one it knew
Truncated(f) ==
    /\ EnvStep
    /\ listeners[OwnWatcher] > 0
    /\ disk[f].kind # "dir"
    /\ disk[f] # File(C_empty)
    /\ Room(listeners[OwnWatcher])
    /\ disk' = [disk EXCEPT ![f] = File(C_empty)]
    /\ last' = Step(IF disk[f] = Absent THEN "add" ELSE "change", <<f>>)
    /\ \E settled \in Settle(inflight, f, File(C_empty)) :
          inflight' = settled (+) mapFiles(IF disk[f] = Absent THEN "add" ELSE "update",
                                           <<f>>, "steady", listeners[OwnWatcher])
    /\ NotifiedGhosts
    /\ events' = << >>
    /\ UNCHANGED <<filterArg, lastCount, keys, built, legacyAsync, listing>>
    /\ UNCHANGED <<hasCache, cache, count, parseJson, attached, watcher,
                   listeners, initPhase, stopped, uncaught>>

\* fs.writeFile writes the content into the file it has opened, and the
\* watcher emits 'change' for it
Written(f, raw) ==
    /\ EnvStep
    /\ listeners[OwnWatcher] > 0
    /\ disk[f] = File(C_empty)
    /\ Room(listeners[OwnWatcher])
    /\ disk' = [disk EXCEPT ![f] = File(raw)]
    /\ last' = Step("change", <<f>>)
    /\ \E settled \in Settle(inflight, f, File(raw)) :
          inflight' = settled (+) mapFiles("update", <<f>>, "steady", listeners[OwnWatcher])
    /\ NotifiedGhosts
    /\ events' = << >>
    /\ UNCHANGED <<filterArg, lastCount, keys, built, legacyAsync, listing>>
    /\ UNCHANGED <<hasCache, cache, count, parseJson, attached, watcher,
                   listeners, initPhase, stopped, uncaught>>

\* a subdirectory is created, and the watcher emits 'add' for it
MadeDir(f) ==
    /\ EnvStep
    /\ listeners[OwnWatcher] > 0
    /\ disk[f] = Absent
    /\ Room(listeners[OwnWatcher])
    /\ disk' = [disk EXCEPT ![f] = Dir]
    /\ last' = Step("add", <<f>>)
    /\ \E settled \in Settle(inflight, f, Dir) :
          inflight' = settled (+) mapFiles("add", <<f>>, "steady", listeners[OwnWatcher])
    /\ NotifiedGhosts
    /\ events' = << >>
    /\ UNCHANGED <<filterArg, lastCount, keys, built, legacyAsync, listing>>
    /\ UNCHANGED <<hasCache, cache, count, parseJson, attached, watcher,
                   listeners, initPhase, stopped, uncaught>>

\* a file or subdirectory is removed, and the watcher emits 'delete' for it
Removed(f) ==
    /\ EnvStep
    /\ listeners[OwnWatcher] > 0
    /\ disk[f] # Absent
    /\ disk' = [disk EXCEPT ![f] = Absent]
    /\ last' = Step("delete", <<f>>)
    /\ Commit(onDelete(This, <<f>>, listeners[OwnWatcher]))
    /\ inflight' \in Settle(inflight, f, Absent)
    /\ NotifiedGhosts
    /\ UNCHANGED <<filterArg, lastCount, keys, built, legacyAsync, listing>>
    /\ UNCHANGED <<parseJson, attached, watcher, listeners, initPhase, stopped>>

NextMirror ==
    \/ WatcherCreated
    \/ WatcherCreateFailed
    \/ \E f \in Names : Truncated(f)
    \/ \E f \in Names, raw \in Contents : Written(f, raw)
    \/ \E f \in Names : MadeDir(f)
    \/ \E f \in Names : Removed(f)
    \/ StatCallback
    \/ ReadCallback

SpecMirror == InitMirror /\ [][NextMirror]_vars

---------------------------------------------------------------------------
(* Vocabulary of the properties                                            *)

Range(files) == {files[i] : i \in 1..Len(files)}

\* positions in evs of the notifications of one type for one name
Raised(evs, type, file) ==
    {i \in 1..Len(evs) : evs[i].type = type /\ evs[i].file = file}

\* positions in evs of the cache's own notifications
Notifications(evs) ==
    {i \in 1..Len(evs) : evs[i].type \in {"add", "update", "delete", "error"}}

\* the names that end in .json
JsonNames == {F_1json}

\* what the store should hold for content `data` of `file` read with the
\* JSON policy `pj`
Resolved(file, data, pj) ==
    IF pj /\ file \in JsonNames /\ data.t = "Buffer" THEN JSONparse(data) ELSE data

InitCallbackOk ==
    \E i \in 1..Len(events) : events[i].type = "initCallback" /\ events[i].data = Null

---------------------------------------------------------------------------
(* Properties                                                              *)

\* C1: when init()'s callback is invoked without error and no watcher
\* notification was processed during the initialization, every name of the
\* initial file list is a key of the store, and each one that was a regular
\* file when probed maps to the content that was read, JSON-decoded when
\* parsing was enabled and the name ends in .json.
C1_InitLoadsFiles ==
    (InitCallbackOk /\ ~notified) =>
        \A f \in initFiles :
            /\ HasKey(cache, f)
            /\ initRead[f] # NotRead
            /\ initRead[f].data.t = "Buffer" =>
                 getFile(cache, f) = Resolved(f, initRead[f].data, initRead[f].pj)

C1_Witness ==
    /\ InitCallbackOk
    /\ ~notified
    /\ initFiles = Names
    /\ getFile(cache, F_1json) = Object([a |-> 1])
    /\ getFile(cache, F_x).t = "Buffer"

\* C2 as stated: a delete notification for a name that is in the store
\* removes it and raises exactly one 'delete' for that name, carrying the
\* content the store held just before; when it is raised getFile(name) is
\* already undefined.
C2_DeleteRemovesAndReports ==
    [][\A f \in MethodNames :
         (last'.op = "delete" /\ f \in Range(last'.files) /\ f \in getFilenames(cache)) =>
            /\ f \notin getFilenames(cache')
            /\ Cardinality(Raised(events', "delete", f)) = 1
            /\ \A i \in Raised(events', "delete", f) :
                  /\ events'[i].data = cache[f]
                  /\ events'[i].seen = Undefined]_vars

\* C3 as stated: a change notification for a name already in the store
\* whose probe and read succeed overwrites the entry with the newly read
\* content, raises exactly one 'update' carrying it, and leaves the key set
\* and count as they were.
C3_ChangeOverwrites ==
    [][\A p \in InFlight :
         (/\ p.op = "update"
          /\ HasKey(cache, p.file)
          /\ Answer(p).kind = "file"
          /\ ReadDone(p)) =>
            /\ HasKey(cache', p.file)
            /\ cache'[p.file] \in {Buffer(Answer(p).content),
                                   JSONparse(Buffer(Answer(p).content))} \ {SyntaxError}
            /\ Cardinality(Raised(events', "update", p.file)) = 1
            /\ \A i \in Raised(events', "update", p.file) :
                  events'[i].data = cache'[p.file]
            /\ DOMAIN cache' = DOMAIN cache
            /\ count' = count]_vars

\* C4 as stated: for every name of an add batch whose probe and read
\* succeed, exactly one 'add' is raised for it, carrying the resolved
\* content; when it is raised the store maps the name to that content and
\* count includes the addition.
C4_AddRaisesOnce ==
    [][\A p \in InFlight :
         (/\ p.op = "add"
          /\ hasCache
          /\ Answer(p).kind = "file"
          /\ ReadDone(p)) =>
            /\ Cardinality(Raised(events', "add", p.file)) = 1
            /\ \A i \in Raised(events', "add", p.file) :
                  /\ events'[i].data \in {Buffer(Answer(p).content),
                                          JSONparse(Buffer(Answer(p).content))}
                                             \ {SyntaxError}
                  /\ events'[i].seen = events'[i].data
                  /\ events'[i].seenCount = count + 1]_vars

\* C5 as stated: a delete notification for a name that is not in the store
\* (a second delivery of the same deletion included) leaves the store and
\* count unchanged and raises nothing.
C5_DeleteAbsentIsSilent ==
    [][\A f \in MethodNames :
         (last'.op = "delete" /\ last'.files = <<f>> /\ f \notin getFilenames(cache)) =>
            (cache' = cache /\ count' = count /\ events' = << >>)]_vars

\* C6 as stated: with a filter, a name that fails the filter is never a key
\* of the store, and getFile(name) is undefined.
C6_FilteredNeverCached ==
    \A f \in Names : filter(f) => (~HasKey(cache, f) /\ getFile(cache, f) = Undefined)

\* C7 as stated: after stop() on an initialized cache, the add / change /
\* delete notifications the watcher emits leave the store and count
\* unchanged and raise no notification of the cache.
C7_StopFreezes ==
    [][(/\ stopped
        /\ \/ last'.op \in {"add", "change", "delete"}
           \/ \E p \in InFlight : p.post /\ (StatDone(p) \/ ReadDone(p))) =>
          /\ cache' = cache
          /\ count' = count
          /\ Notifications(events') = {}]_vars

\* C8 as stated: the result of a probe/read dispatched before stop() that
\* arrives after stop() is discarded: the store and count stay as they
\* are and no notification is raised.
C8_LateResultsDiscarded ==
    [][(/\ stopped
        /\ \E p \in InFlight : ~p.post /\ (StatDone(p) \/ ReadDone(p))) =>
          /\ cache' = cache
          /\ count' = count
          /\ Notifications(events') = {}]_vars

\* C9 as stated: when a name of an add or change batch has vanished from
\* disk by the time it is probed, the pipeline yields no-content: the name
\* is stored with undefined content and an add or update is raised for it,
\* and no error.
C9_VanishedIsNoContent ==
    [][\A p \in InFlight :
         (/\ hasCache
          /\ p.batch = "steady"
          /\ Answer(p) = Absent
          /\ StatDone(p)) =>
            /\ uncaught' = NoError
            /\ HasKey(cache', p.file)
            /\ cache'[p.file] = Undefined
            /\ \E i \in Raised(events', "add", p.file) \cup Raised(events', "update", p.file) :
                  events'[i].data = Undefined]_vars

\* C10 as stated: for any name of an add batch that probes as something
\* other than a regular file, an 'add' is raised for it with undefined
\* content, the name is among getFilenames() and count is incremented,
\* whatever the name is.
C10_NonRegularIsAdded ==
    [][\A p \in InFlight :
         (/\ hasCache
          /\ p.op = "add"
          /\ Answer(p) = Dir
          /\ StatDone(p)) =>
            /\ Cardinality(Raised(events', "add", p.file)) = 1
            /\ \A i \in Raised(events', "add", p.file) : events'[i].data = Undefined
            /\ p.file \in getFilenames(cache')
            /\ count' = count + 1]_vars

\* C11 as stated: when the probe or the read of a name of an add or change
\* batch fails on an initialized cache, the cache raises an 'error' notification carrying
\* the fault.
C11_FailureRaisesError ==
    [][\A p \in InFlight :
         (/\ p.batch = "steady"
          /\ initPhase = "done"
          /\ \/ StatDone(p) /\ Answer(p) = Absent
             \/ ReadDone(p) /\ Answer(p).kind # "file") =>
            \E i \in 1..Len(events') :
               /\ events'[i].type = "error"
               /\ events'[i].data = (IF Answer(p) = Absent THEN Error("ENOENT")
                                     ELSE Error("EISDIR"))]_vars

\* C12 as stated: a change notification for a name that is not in the store
\* of an initialized cache, whose probe and read succeed and whose content resolves, is treated like
\* an add: the name is inserted, count is incremented and one 'add' (no
\* 'update') is raised with the resolved content.
C12_ChangeOfAbsentIsAdd ==
    [][\A p \in InFlight :
         (/\ p.op = "update"
          /\ initPhase = "done"
          /\ ~HasKey(cache, p.file)
          /\ Answer(p).kind = "file"
          /\ Resolved(p.file, Buffer(Answer(p).content), parseJson) # SyntaxError
          /\ ReadDone(p)) =>
            /\ HasKey(cache', p.file)
            /\ count' = count + 1
            /\ Raised(events', "update", p.file) = {}
            /\ Cardinality(Raised(events', "add", p.file)) = 1
            /\ \A i \in Raised(events', "add", p.file) :
                  events'[i].data = Resolved(p.file, Buffer(Answer(p).content), parseJson)]_vars

\* C14 as stated: once init() has completed, count equals the number of
\* names in the store, whatever notifications were processed.
C14_CountIsNumberOfKeys ==
    (initPhase = "done" /\ Running) => count = Cardinality(getFilenames(cache))

\* C17 as stated: when a step of init() fails, init()'s callback receives the
\* error, and from then on no watcher notification and no late probe or read
\* result changes the store or count or raises add / update / delete.
C17_FailedInitStaysInert ==
    [][/\ (initPhase # "failed" /\ initPhase' = "failed") =>
             \E i \in 1..Len(events') :
                events'[i].type = "initCallback" /\ events'[i].data.t = "Error"
       /\ (initPhase = "failed" /\ last'.op # "init") =>
             /\ cache' = cache
             /\ count' = count
             /\ Notifications(events') = {}]_vars

\* C18 as stated: after attachWatcher(w), an 'error' event emitted by w makes
\* the cache raise an 'error' notification carrying that error.
C18_WatcherErrorForwarded ==
    [][last'.op = "error" =>
         \E i \in 1..Len(events') :
            events'[i].type = "error" /\ events'[i].data.t = "Error"]_vars

\* the names whose last five characters are ".json" in any letter case
DotJsonNames == {F_1json, F_AJSON}

\* C13: a read result applied to the store is stored JSON-decoded exactly
\* when parsing is enabled at that moment and the name ends in .json in
\* any letter case, and raw otherwise; when the decoding throws nothing is
\* stored; no other entry changes, and the two switches change no entry.
C13_DecodedIffEnabledAndJsonName ==
    [][/\ \A f \in MethodNames, d \in ReadResults :
             (d.t = "Buffer" /\ (AddResult(f, d) \/ UpdateResult(f, d))) =>
                /\ uncaught' = NoError =>
                      /\ HasKey(cache', f)
                      /\ cache'[f] = (IF parseJson /\ f \in DotJsonNames
                                      THEN JSONparse(d) ELSE d)
                      /\ cache'[f].t = (IF parseJson /\ f \in DotJsonNames
                                        THEN "Object" ELSE "Buffer")
                /\ uncaught' # NoError => cache' = cache
                /\ \A g \in MethodNames \ {f} : getFile(cache', g) = getFile(cache, g)
       /\ parseJson' # parseJson => cache' = cache]_vars

C13_Witness ==
    /\ ~parseJson
    /\ getFile(cache, F_AJSON) = Object([a |-> 1])
    /\ getFile(cache, F_1json) = Buffer(C_a1)

\* C16 as stated: a second getFilenames() with no store mutation in between
\* returns the same array as the first, without building a new one.
C16_FilenamesNotRebuilt ==
    [][(last.op = "getFilenames" /\ last'.op = "getFilenames") => built' = built]_vars

\* C15 as stated: the sequence getFiles() returns holds, as a set, exactly
\* the names the cache holds at that moment.
C15_GetFilesMatchesKeys ==
    last.op = "getFiles" => Range(last.files) = getFilenames(cache)

\* a read of `file` was started for the batch the last step handed to grabFiles
Grabbed(file, tasks, step) ==
    \E q \in BagToSet(tasks) :
       /\ q.file = file
       /\ q.phase = "read"
       /\ q.batch = step.files
       /\ q.op = (IF step.op \in {"readdir", "grabFiles"} THEN "init" ELSE step.op)

\* the step ran grabFiles on step.files: a listener did, or the stage of
\* init() (which async 0.2.x runs in a turn of its own, after the listing)
RanGrabFiles(step) ==
    \/ step.op \in {"grabFiles", "added", "changed"}
    \/ step.op = "readdir" /\ ~legacyAsync

\* what the function the cache was constructed with returns for a name
FunctionReturnsTrue(f) ==
    IF filterArg = "function" THEN f \in DotJsonNames ELSE f \notin DotJsonNames

\* C19 as stated: with a function filter, a name of the initial listing or
\* of an added / changed batch is read and cached if and only if the
\* function returns true for it: grabFiles starts a read for exactly those
\* names, and no read of a listing or of a batch is ever in flight for
\* another name.
C19_FunctionFilterKeeps ==
    [][(filterArg # "none" /\ filterArg # "regexp") =>
         /\ \A q \in BagToSet(inflight') : q.op # "direct" => FunctionReturnsTrue(q.file)
         /\ RanGrabFiles(last') =>
               \A f \in Range(last'.files) :
                  Grabbed(f, inflight', last') <=> FunctionReturnsTrue(f)]_vars

\* C20 as stated: once init() has been called, and every listing, watcher
\* creation and read calls back, init()'s callback is eventually invoked,
\* and it is invoked once only (runs ended by an uncaught exception are
\* left aside here).
C20_InitCallsBackOnce ==
    /\ (initPhase \in {"called", "listing"})
          ~> (initPhase \in {"done", "failed"} \/ uncaught # NoError)
    /\ [][\A i \in 1..Len(events') :
             events'[i].type = "initCallback" =>
                /\ initPhase \notin {"done", "failed"}
                /\ \A j \in 1..Len(events') : events'[j].type = "initCallback" => j = i]_vars

\* C21 as stated: count never decreases: every successful add and every
\* successful delete increments it by exactly one, and an update or any
\* other operation leaves it as it is.
C21_CountNeverDecreases ==
    [][/\ count' >= count
       /\ last'.op = "delete" =>
             count' = count + Cardinality({f \in Range(last'.files) : HasKey(cache, f)})
       /\ last'.op = "deliver" =>
             count' = count + Cardinality({i \in 1..Len(events') : events'[i].type = "add"})
       /\ last'.op \notin {"delete", "deliver"} => count' = count]_vars

\* C22 as stated: when the probe or the read of one name of an add or change
\* batch fails on an initialized cache while the pipeline of another name
\* is in flight, the store and count stay as they are, the other pipeline
\* stays in flight and the cache keeps running, so that it is applied when
\* its probe and read succeed.
C22_FailureSparesTheBatch ==
    [][\A p \in InFlight :
         (/\ p.batch = "steady"
          /\ initPhase = "done"
          /\ \E q \in InFlight :
                q.file # p.file /\ q.batch = "steady" /\ BagIn(q, inflight)
          /\ \/ StatDone(p) /\ Answer(p) = Absent
             \/ ReadDone(p) /\ Answer(p).kind # "file") =>
            /\ cache' = cache
            /\ count' = count
            /\ inflight' = inflight (-) SetToBag({p})
            /\ uncaught' = NoError]_vars

\* C23 as stated: with parsing enabled, when the content read for a .json
\* name of an add or change batch is malformed, the cache raises 'error',
\* the store and count stay as they are and the cache keeps running.
C23_DecodeFaultIsReported ==
    [][\A p \in InFlight :
         (/\ initPhase = "done"
          /\ parseJson
          /\ isJsonFile(p.file)
          /\ Answer(p).kind = "file"
          /\ JSONparse(Buffer(Answer(p).content)) = SyntaxError
          /\ ReadDone(p)) =>
            /\ \E i \in 1..Len(events') : events'[i].type = "error"
            /\ cache' = cache
            /\ count' = count
            /\ uncaught' = NoError]_vars

\* C24 as stated: when init() creates the watcher itself, the cache holds no
\* listener on it while the initial batch is in flight, and no
\* notification of the new watcher is processed before the batch is applied.
C24_SubscribesAfterInitialBatch ==
    [][/\ (initPhase = "creating" /\ initPhase' = "mapping") => listeners'[OwnWatcher] = 0
       /\ (last.op = "created" /\ initPhase = "mapping") =>
             \A files \in Batches :
                ~(OnAdd(OwnWatcher, files) \/ OnChange(OwnWatcher, files)
                     \/ OnDelete(OwnWatcher, files))]_vars

\* C25 as stated: stop() removes the add / change / delete listeners this
\* cache subscribed, on every watcher it subscribed to, and a further
\* stop() changes nothing.  (Listeners of other consumers are not part of
\* the model.)
C25_StopRemovesOwnListeners ==
    [][last'.op = "stop" =>
         /\ \A w \in Watchers : listeners'[w] = 0
         /\ stopped => listeners' = listeners]_vars

\* the store as a mirror of the directory: its keys are the names present
\* on disk, and the entry of each regular file is that file's content as
\* the cache resolves it
Mirrors ==
    /\ getFilenames(cache) = {f \in Names : disk[f] # Absent}
    /\ \A f \in Names :
          disk[f].kind = "file" =>
             getFile(cache, f) = Resolved(f, Buffer(disk[f].content), parseJson)

\* C26 as stated: under a watcher that reports every change, once init() has
\* called back and no probe or read is in flight, the store mirrors the
\* directory; stated for the runs in which no exception has escaped.
C26_StoreMirrorsDirectory ==
    (initPhase = "done" /\ inflight = EmptyBag /\ uncaught = NoError) => Mirrors

====
